---- MODULE Spec2Model ----
(***************************************************************************)
(* Breakout (src/main.cpp): the per-frame state machine UpdateGame, the    *)
(* level generator, the ball/paddle/brick/wall physics and the power-ups.  *)
(*                                                                         *)
(* Numbers.  The program computes in float.  Here a length or a speed is   *)
(* an integer number of 1/PX pixels and a time an integer number of        *)
(* 1/MS seconds; a product with a decimal factor (x * 1.2f) is rounded     *)
(* toward zero to that resolution.  Halves (rect.width / 2) are avoided by *)
(* comparing doubled quantities, so the collision tests are exact.         *)
(*                                                                         *)
(* Environment.  The keys, the frame time and the random draws of a frame  *)
(* are inputs.  A run starts at the program's start (the menu).  A plan    *)
(* may let a scripted player (it keeps the paddle under a ball) play the   *)
(* first plan.K frames; after that every input of the input sets is        *)
(* possible in every frame, for at most MaxTicks simulated frames.         *)
(***************************************************************************)
EXTENDS Integers, Sequences, FiniteSets, TLC

\* ------------------------------------------------------------------------
\* Resolution of the fixed-point numbers
\* ------------------------------------------------------------------------
PX == 100
MS == 1000

\* ------------------------------------------------------------------------
\* Defines and global constants (main.cpp 11-35)
\* ------------------------------------------------------------------------
SCREEN_WIDTH == 800 * PX
SCREEN_HEIGHT == 600 * PX
PADDLE_WIDTH == 100 * PX
PADDLE_HEIGHT == 20 * PX
PADDLE_SPEED == 8 * PX
BALL_RADIUS == 10 * PX
INITIAL_BALL_SPEED_X == 4 * PX
INITIAL_BALL_SPEED_Y == -(4 * PX)
MIN_BALL_SPEED_X == 2 * PX
BRICK_ROWS == 6
BRICKS_PER_ROW == 10
BRICK_WIDTH == SCREEN_WIDTH \div BRICKS_PER_ROW
BRICK_HEIGHT == 30 * PX
BRICK_SPACING == 2 * PX
TIME_LIMIT_EASY == 90 * MS
TIME_LIMIT_MEDIUM == 120 * MS
TIME_LIMIT_HARD == 150 * MS
POWERUP_SIZE == 20 * PX
POWERUP_SPEED == 2 * PX
\* GetRandomValue(0, 100) / 100.0f > POWERUP_SPAWN_CHANCE  <=>  draw > 10
POWERUP_SPAWN_CHANCE == 10

\* enum class PowerUpType
NONE == 0
PADDLE_SIZE_UP == 1
BALL_SPEED_UP == 2
EXTRA_LIFE == 3
MULTI_BALL == 4

\* enum class GameState
MENU == "MENU"
PLAYING == "PLAYING"
GAME_OVER == "GAME_OVER"
YOU_WIN == "YOU_WIN"

\* enum class Difficulty
EASY == 0
MEDIUM == 1
HARD == 2

\* ------------------------------------------------------------------------
\* Bounds of the model
\* ------------------------------------------------------------------------
\* simulated (unpaused) frames with free inputs
MaxTicks == 3

\* the simulated frames with free inputs that follow a scripted run
PlanTicks == 1

\* the simulated frames with free keys before every frame is a stalled one
LiveTicks == 1

\* ------------------------------------------------------------------------
\* Arithmetic
\* ------------------------------------------------------------------------
Abs(v) == IF v >= 0 THEN v ELSE -v

Min2(a, b) == IF a <= b THEN a ELSE b

Max2(a, b) == IF a >= b THEN a ELSE b

\* v * n / d in float, rounded toward zero
Scale(v, n, d) == IF v >= 0 THEN (v * n) \div d ELSE -(((-v) * n) \div d)

RECURSIVE SqrtIter(_, _, _)
SqrtIter(n, lo, hi) ==
    IF lo >= hi THEN lo
    ELSE LET mid == (lo + hi + 1) \div 2
         IN IF mid * mid <= n THEN SqrtIter(n, mid, hi) ELSE SqrtIter(n, lo, mid - 1)

\* std::sqrt, rounded down
Sqrt(n) == SqrtIter(n, 0, 46340)

\* ------------------------------------------------------------------------
\* raylib collision tests
\* ------------------------------------------------------------------------
CheckCollisionCircleRec(cx, cy, radius, rec) ==
    LET dx2 == Abs(2 * cx - (2 * rec.x + rec.width))
        dy2 == Abs(2 * cy - (2 * rec.y + rec.height))
    IN IF dx2 > rec.width + 2 * radius THEN FALSE
       ELSE IF dy2 > rec.height + 2 * radius THEN FALSE
       ELSE IF dx2 <= rec.width THEN TRUE
       ELSE IF dy2 <= rec.height THEN TRUE
       ELSE (dx2 - rec.width) * (dx2 - rec.width) + (dy2 - rec.height) * (dy2 - rec.height)
                <= 4 * radius * radius

CheckCollisionRecs(a, b) ==
    /\ a.x < b.x + b.width
    /\ a.x + a.width > b.x
    /\ a.y < b.y + b.height
    /\ a.y + a.height > b.y

\* ------------------------------------------------------------------------
\* Random draws of one frame (std::shuffle, GetRandomValue)
\* ------------------------------------------------------------------------
\* A draw record rnd: level (the draws of one SetupLevel), sign (the ball's
\* initial direction), roll and kind (SpawnPowerUp), jitter (paddle bounce).
\* The draws of one SetupLevel are a record
\*   mult, off : the shuffle puts cell c of the n candidates at place
\*               (mult * c + off) % n (mult and n have no common factor)
\*   pct       : GetRandomValue(70, 90)
\*   hits      : how GetRandomValue(1, max) falls for the k-th brick
\*   move      : how GetRandomValue(0, 100) < 30 falls for the k-th brick
ShufflePlace(lv, c, n) == (lv.mult * c + lv.off) % n

HitsDraw(lv, k, max) ==
    IF lv.hits = "one" THEN 1
    ELSE IF lv.hits = "max" THEN max
    ELSE (k % max) + 1

MoveDraw(lv, k) ==
    IF lv.move = "none" THEN FALSE
    ELSE IF lv.move = "all" THEN TRUE
    ELSE k % 2 = 0

\* the draws of SetupLevel that a free frame may see
LevelDraws ==
    {[mult |-> 1, off |-> 0, pct |-> 70, hits |-> "one", move |-> "none"],
     [mult |-> 7, off |-> 3, pct |-> 90, hits |-> "cycle", move |-> "alt"]}

\* the draws of SetupLevel over the whole range of GetRandomValue(70, 90)
GenLevelDraws ==
    {[mult |-> m[1], off |-> m[2], pct |-> p, hits |-> h, move |-> v] :
        m \in {<<1, 0>>, <<7, 3>>}, p \in 70 .. 90, h \in {"max", "cycle"},
        v \in {"none", "all"}}

\* the draws of SetupLevel that the scripted runs see
PlanLevelD == [mult |-> 11, off |-> 5, pct |-> 70, hits |-> "one", move |-> "none"]

PlanLevelE == [mult |-> 11, off |-> 5, pct |-> 70, hits |-> "cycle", move |-> "alt"]

PlanLevelF == [mult |-> 23, off |-> 9, pct |-> 70, hits |-> "one", move |-> "alt"]

\* the runs: K frames of the scripted player, who selects diff in the menu,
\* keeps the paddle centre (plus aim) under the first or the last active
\* ball (or, with follow "powerup", under the oldest power-up when there is
\* one), confirms the end screens, and sees these draws (a power-up spawns
\* while score < spawnBelow); after the K frames the inputs are free, for at
\* most free simulated frames
Plans ==
    << [K |-> 0, free |-> MaxTicks, diff |-> EASY, aim |-> 0, follow |-> "first", dt |-> 17,
        level |-> PlanLevelD, sign |-> 1, spawnBelow |-> 0, kind |-> MULTI_BALL,
        jitter |-> 0],
       [K |-> 987, free |-> PlanTicks, diff |-> HARD, aim |-> -(40 * PX), follow |-> "first", dt |-> 17,
        level |-> PlanLevelE, sign |-> -1, spawnBelow |-> 100000, kind |-> MULTI_BALL,
        jitter |-> 0],
       [K |-> 1912, free |-> PlanTicks, diff |-> EASY, aim |-> -(40 * PX), follow |-> "first", dt |-> 17,
        level |-> PlanLevelD, sign |-> 1, spawnBelow |-> 100000, kind |-> MULTI_BALL,
        jitter |-> 0],
       [K |-> 463, free |-> PlanTicks, diff |-> HARD, aim |-> -(40 * PX), follow |-> "last", dt |-> 17,
        level |-> PlanLevelE, sign |-> -1, spawnBelow |-> 100000, kind |-> MULTI_BALL,
        jitter |-> 0],
       [K |-> 263, free |-> PlanTicks, diff |-> EASY, aim |-> 0, follow |-> "first", dt |-> 17,
        level |-> PlanLevelE, sign |-> 1, spawnBelow |-> 100000, kind |-> MULTI_BALL,
        jitter |-> -10],
       [K |-> 439, free |-> PlanTicks, diff |-> MEDIUM, aim |-> 0, follow |-> "powerup", dt |-> 17,
        level |-> PlanLevelF, sign |-> -1, spawnBelow |-> 100000, kind |-> MULTI_BALL,
        jitter |-> 0],
       [K |-> 413, free |-> PlanTicks, diff |-> EASY, aim |-> 0, follow |-> "powerup", dt |-> 17,
        level |-> PlanLevelF, sign |-> 1, spawnBelow |-> 100000, kind |-> PADDLE_SIZE_UP,
        jitter |-> 0],
       [K |-> 446, free |-> PlanTicks, diff |-> HARD, aim |-> -(40 * PX), follow |-> "first", dt |-> 17,
        level |-> PlanLevelE, sign |-> -1, spawnBelow |-> 100000, kind |-> EXTRA_LIFE,
        jitter |-> 0],
       [K |-> 331, free |-> PlanTicks, diff |-> HARD, aim |-> 0, follow |-> "first", dt |-> 17,
        level |-> PlanLevelD, sign |-> -1, spawnBelow |-> 100000, kind |-> EXTRA_LIFE,
        jitter |-> 0],
       [K |-> 336, free |-> PlanTicks, diff |-> HARD, aim |-> -(40 * PX), follow |-> "first", dt |-> 17,
        level |-> PlanLevelF, sign |-> 1, spawnBelow |-> 100000, kind |-> MULTI_BALL,
        jitter |-> 0] >>

AllLevelDraws == LevelDraws \cup GenLevelDraws \cup {Plans[i].level : i \in DOMAIN Plans}

\* what a frame observed, for the properties (cleared at each frame):
\*   expired, lost : the timer expired, no ball was active in the loop
\*   reset         : ResetBallsAndPaddle rebuilt the ball list
\*   wall, fell, bounced, jitter : the balls (by index) whose side-wall test
\*                   fired, that fell out, that bounced off the paddle, and
\*                   whose bounce drew the jitter
\*   wallBefore    : the balls whose side-wall test fired in the frame before
\*   rewall        : the balls of wallBefore whose side-wall test fired again
\*   hits, caught  : the brick hits and the power-ups caught, in order (a
\*                   hit keeps in over the active bricks that the ball touched)
\*   spawned       : the power-ups that SpawnPowerUp created, in order
\*   purged        : the power-ups (as moved) that were caught or fell out
\*   used          : the random draws the frame made
NoLog == [expired |-> FALSE, lost |-> FALSE, reset |-> FALSE, wall |-> {}, fell |-> {},
          bounced |-> {}, jitter |-> {}, wallBefore |-> {}, rewall |-> {},
          hits |-> <<>>, caught |-> <<>>, spawned |-> <<>>, purged |-> {}, used |-> {}]

Used(g, what) == [g EXCEPT !.log.used = @ \cup {what}]

\* ------------------------------------------------------------------------
\* Level set-up
\* ------------------------------------------------------------------------
Cells == 0 .. (BRICK_ROWS * BRICKS_PER_ROW - 1)

RowOf(c) == c \div BRICKS_PER_ROW

ColOf(c) == c % BRICKS_PER_ROW

\* static Brick bricks[][] = { 0 }
ZeroBrick == [x |-> 0, y |-> 0, width |-> 0, height |-> 0,
              active |-> FALSE, hitsRequired |-> 0, moveSpeed |-> 0]

BaseSpeed(diff, v) ==
    IF diff = EASY THEN Scale(v, 8, 10)
    ELSE IF diff = MEDIUM THEN Scale(v, 12, 10)
    ELSE Scale(v, 15, 10)

ResetBallsAndPaddle(g, rnd) ==
    LET px == (SCREEN_WIDTH - g.paddle.width) \div 2
        py == SCREEN_HEIGHT - g.paddle.height - 30 * PX
        newBall == [x |-> px + g.paddle.width \div 2,
                    y |-> py - BALL_RADIUS - 5 * PX,
                    speedX |-> BaseSpeed(g.currentDifficulty, INITIAL_BALL_SPEED_X) * rnd.sign,
                    speedY |-> BaseSpeed(g.currentDifficulty, INITIAL_BALL_SPEED_Y),
                    radius |-> BALL_RADIUS,
                    active |-> TRUE]
    IN Used([g EXCEPT !.paddle.x = px, !.paddle.y = py, !.balls = <<newBall>>,
                      !.log.reset = TRUE, !.log.wallBefore = {}], "sign")

\* ActiveRows that gives every difficulty all the rows (a seeded fault)
ActiveRows_All(diff) == BRICK_ROWS

ActiveRows(diff) ==
    IF diff = EASY THEN BRICK_ROWS - 3
    ELSE IF diff = MEDIUM THEN BRICK_ROWS - 1
    ELSE BRICK_ROWS

MaxHits(diff) == IF diff = EASY THEN 1 ELSE IF diff = MEDIUM THEN 2 ELSE 3

TimeLimit(diff) ==
    IF diff = EASY THEN TIME_LIMIT_EASY
    ELSE IF diff = MEDIUM THEN TIME_LIMIT_MEDIUM
    ELSE TIME_LIMIT_HARD

PaddleWidthFor(diff) ==
    IF diff = EASY THEN Scale(PADDLE_WIDTH, 15, 10)
    ELSE IF diff = MEDIUM THEN Scale(PADDLE_WIDTH, 7, 10)
    ELSE Scale(PADDLE_WIDTH, 5, 10)

\* NumBricks that places no brick (a seeded fault)
NumBricks_None(maxBricks, pct) == 0

\* const int numBricks = maxBricks * (GetRandomValue(70, 90) / 100.0f)
NumBricks(maxBricks, pct) == (maxBricks * pct) \div 100

\* the brick grid that SetupLevel builds (main.cpp 175-216)
LevelBricks(diff, lv) ==
    LET activeRows == ActiveRows(diff)
        maxBricks == activeRows * BRICKS_PER_ROW
        numBricks == NumBricks(maxBricks, lv.pct)
        Blank(c) == [x |-> ColOf(c) * BRICK_WIDTH + BRICK_SPACING \div 2,
                     y |-> 50 * PX + RowOf(c) * BRICK_HEIGHT + BRICK_SPACING \div 2,
                     width |-> BRICK_WIDTH - BRICK_SPACING,
                     height |-> BRICK_HEIGHT - BRICK_SPACING,
                     active |-> FALSE, hitsRequired |-> 0, moveSpeed |-> 0]
        Placed(c, k) == [Blank(c) EXCEPT
                            !.active = TRUE,
                            !.hitsRequired = IF diff = EASY THEN 1
                                             ELSE HitsDraw(lv, k, MaxHits(diff)),
                            !.moveSpeed = IF diff = HARD /\ RowOf(c) = activeRows - 1
                                             /\ MoveDraw(lv, k)
                                          THEN 2 * PX ELSE 0]
    IN [c \in Cells |->
          IF c < maxBricks /\ ShufflePlace(lv, c, maxBricks) < numBricks
          THEN Placed(c, ShufflePlace(lv, c, maxBricks)) ELSE Blank(c)]

\* LevelBricks, computed once for every draw of the model
BrickTable == [d \in {EASY, MEDIUM, HARD} |-> [lv \in AllLevelDraws |-> LevelBricks(d, lv)]]

SetupLevel(g, diff, rnd) ==
    LET g1 == [g EXCEPT !.paddle = [x |-> (SCREEN_WIDTH - PaddleWidthFor(diff)) \div 2,
                                    y |-> SCREEN_HEIGHT - PADDLE_HEIGHT - 30 * PX,
                                    width |-> PaddleWidthFor(diff),
                                    height |-> PADDLE_HEIGHT]]
        g2 == ResetBallsAndPaddle(g1, rnd)
        maxBricks == ActiveRows(diff) * BRICKS_PER_ROW
        numBricks == NumBricks(maxBricks, rnd.level.pct)
    IN Used([g2 EXCEPT
                !.bricks = BrickTable[diff][rnd.level],
                \* one activeBricks++ for each k < numBricks && k < positions.size()
                !.activeBricks = Min2(numBricks, maxBricks),
                !.countdownTimer = TimeLimit(diff)], "level")

\* InitGame that keeps the score of the game before (a seeded fault)
InitGame_KeepScore(g, rnd) ==
    SetupLevel([g EXCEPT !.lives = 3, !.currentLevel = 1, !.paused = FALSE,
                         !.powerUps = <<>>, !.balls = <<>>],
               g.currentDifficulty, rnd)

InitGame(g, rnd) ==
    SetupLevel([g EXCEPT !.score = 0, !.lives = 3, !.currentLevel = 1, !.paused = FALSE,
                         !.powerUps = <<>>, !.balls = <<>>],
               g.currentDifficulty, rnd)

UpdateMenu(g, in, rnd) ==
    LET o1 == IF in.up THEN (g.selectedMenuOption - 1 + 3) % 3 ELSE g.selectedMenuOption
        o2 == IF in.down THEN (o1 + 1) % 3 ELSE o1
        g1 == [g EXCEPT !.selectedMenuOption = o2]
    IN IF in.enter
       THEN [InitGame([g1 EXCEPT !.currentDifficulty = o2], rnd) EXCEPT !.currentState = PLAYING]
       ELSE g1

\* ------------------------------------------------------------------------
\* Power-ups
\* ------------------------------------------------------------------------
\* if (GetRandomValue(0, 100) / 100.0f > POWERUP_SPAWN_CHANCE) return;
\* rnd.roll is the first draw, rnd.kind is GetRandomValue(1, 4)
NewPowerUp(x, y, type) ==
    [x |-> x, y |-> y, width |-> POWERUP_SIZE, height |-> POWERUP_SIZE,
     type |-> type, active |-> TRUE]

SpawnPowerUp(g, x, y, rnd) ==
    IF rnd.roll > POWERUP_SPAWN_CHANCE THEN Used(g, "roll")
    ELSE [Used(g, "roll") EXCEPT !.powerUps = Append(@, NewPowerUp(x, y, rnd.kind)),
                                 !.log.spawned = Append(@, NewPowerUp(x, y, rnd.kind))]

FloorSpeedX(v) ==
    IF Abs(v) < MIN_BALL_SPEED_X
    THEN (IF v >= 0 THEN MIN_BALL_SPEED_X ELSE -MIN_BALL_SPEED_X)
    ELSE v

SpeedUpBall(ball) ==
    [ball EXCEPT !.speedX = FloorSpeedX(Scale(@, 12, 10)), !.speedY = Scale(@, 12, 10)]

\* Ball newBall = balls[0]; the i-th clone of MULTI_BALL
CloneBall(ball, i) ==
    [ball EXCEPT !.speedX = IF i = 0 THEN -@ ELSE @, !.speedY = -Abs(@), !.active = TRUE]

\* ApplyPowerUp whose PADDLE_SIZE_UP does not clamp the paddle's position
\* (a seeded fault)
ApplyPowerUp_NoClamp(g, type) ==
    IF type = PADDLE_SIZE_UP
    THEN [g EXCEPT !.paddle.width = Min2(Scale(@, 12, 10), PADDLE_WIDTH * 2)]
    ELSE IF type = BALL_SPEED_UP
    THEN [g EXCEPT !.balls = [i \in DOMAIN @ |-> SpeedUpBall(@[i])]]
    ELSE IF type = EXTRA_LIFE
    THEN [g EXCEPT !.lives = @ + 1]
    ELSE IF type = MULTI_BALL
    THEN IF g.balls = <<>> THEN g
         ELSE [g EXCEPT !.balls = @ \o <<CloneBall(@[1], 0), CloneBall(@[1], 1)>>]
    ELSE g

ApplyPowerUp(g, type) ==
    IF type = PADDLE_SIZE_UP
    THEN LET w == Min2(Scale(g.paddle.width, 12, 10), PADDLE_WIDTH * 2)
         IN [g EXCEPT !.paddle.width = w,
                      !.paddle.x = Max2(0, Min2(@, SCREEN_WIDTH - w))]
    ELSE IF type = BALL_SPEED_UP
    THEN [g EXCEPT !.balls = [i \in DOMAIN @ |-> SpeedUpBall(@[i])]]
    ELSE IF type = EXTRA_LIFE
    THEN [g EXCEPT !.lives = @ + 1]
    ELSE IF type = MULTI_BALL
    THEN IF g.balls = <<>> THEN g
         ELSE [g EXCEPT !.balls = @ \o <<CloneBall(@[1], 0), CloneBall(@[1], 1)>>]
    ELSE g

\* powerUps.erase(powerUps.begin() + i), with i counted from 1
Erase(s, i) == SubSeq(s, 1, i - 1) \o SubSeq(s, i + 1, Len(s))

\* the power-up at index i, moved down, has met the paddle: g1 is g after
\* ApplyPowerUp (main.cpp 276-280)
CatchPowerUp(g, g1, i, moved) ==
    [g1 EXCEPT !.powerUps[i] = [moved EXCEPT !.active = FALSE],
               !.log.caught = Append(@, [type |-> moved.type, before |-> g.balls,
                                         after |-> g1.balls]),
               !.log.purged = @ \cup {moved}]

\* the pass of the loop for the active power-up at index i (main.cpp 274-284)
PowerUpPass(g, i, moved) ==
    IF CheckCollisionRecs(moved, g.paddle)
    THEN CatchPowerUp(g, ApplyPowerUp(g, moved.type), i, moved)
    ELSE IF moved.y > SCREEN_HEIGHT
    THEN [g EXCEPT !.powerUps[i] = [moved EXCEPT !.active = FALSE],
                   !.log.purged = @ \cup {moved}]
    ELSE [g EXCEPT !.powerUps[i] = moved]

\* the loop of UpdatePowerUps where the index always advances after a pass,
\* so that a power-up deactivated in a frame is erased in the next one
\* (a seeded fault)
RECURSIVE PowerUpLoop_Deferred(_, _)
PowerUpLoop_Deferred(g, i) ==
    IF i > Len(g.powerUps) THEN g
    ELSE IF ~g.powerUps[i].active
    THEN PowerUpLoop_Deferred([g EXCEPT !.powerUps = Erase(@, i)], i)
    ELSE PowerUpLoop_Deferred(
             PowerUpPass(g, i, [g.powerUps[i] EXCEPT !.y = @ + POWERUP_SPEED]), i + 1)

RECURSIVE PowerUpLoop(_, _)
RECURSIVE PowerUpNext(_, _)
\* the loop of UpdatePowerUps from index i on (main.cpp 265-287)
PowerUpLoop(g, i) ==
    IF i > Len(g.powerUps) THEN g
    ELSE IF ~g.powerUps[i].active
    THEN PowerUpLoop([g EXCEPT !.powerUps = Erase(@, i)], i)
    ELSE PowerUpNext(PowerUpPass(g, i, [g.powerUps[i] EXCEPT !.y = @ + POWERUP_SPEED]), i)

\* if (powerUp.active) ++i
PowerUpNext(g, i) == PowerUpLoop(g, IF g.powerUps[i].active THEN i + 1 ELSE i)

UpdatePowerUps(g) == PowerUpLoop(g, 1)

\* ------------------------------------------------------------------------
\* Ball against the bricks
\* ------------------------------------------------------------------------
\* the lowest index of a set of cells (-1: none)
Lowest(S) == IF S = {} THEN -1 ELSE CHOOSE c \in S : \A d \in S : c <= d

\* the active bricks that the ball touches
Touched(bricks, ball) ==
    {c \in Cells : bricks[c].active
        /\ CheckCollisionCircleRec(ball.x, ball.y, ball.radius, bricks[c])}

\* FirstBrickHit that scans the grid from its end (a seeded fault)
FirstBrickHit_Last(bricks, ball) ==
    IF Touched(bricks, ball) = {} THEN -1
    ELSE CHOOSE c \in Touched(bricks, ball) : \A d \in Touched(bricks, ball) : c >= d

\* the first active brick, in row-major order, that the ball touches (-1: none)
FirstBrickHit(bricks, ball) == Lowest(Touched(bricks, ball))

\* the ball's speed after the bounce off brick
BrickBounce(ball, brick) ==
    LET dx2 == 2 * ball.x - (2 * brick.x + brick.width)
        dy2 == 2 * ball.y - (2 * brick.y + brick.height)
        b1 == IF Abs(dx2) > brick.width \/ Abs(dy2) > brick.height
              THEN IF Abs(dx2) > Abs(dy2)
                   THEN [ball EXCEPT !.speedX = -@]
                   ELSE [ball EXCEPT !.speedY = -@]
              ELSE [ball EXCEPT !.speedY = -@]
    IN [b1 EXCEPT !.speedX = FloorSpeedX(@)]

\* HitBrick that destroys the brick at the first hit (a seeded fault)
HitBrick_OneHit(g, i, c, rnd) ==
    IF c = -1 THEN g
    ELSE [SpawnPowerUp([g EXCEPT !.bricks[c].hitsRequired = @ - 1,
                                 !.bricks[c].active = FALSE,
                                 !.activeBricks = @ - 1,
                                 !.score = @ + 10],
                       g.bricks[c].x + g.bricks[c].width \div 2,
                       g.bricks[c].y + g.bricks[c].height \div 2, rnd)
          EXCEPT !.balls[i] = BrickBounce(g.balls[i], g.bricks[c])]

\* HitBrick without the activeBricks-- of main.cpp 350 (a seeded fault)
HitBrick_NoCount(g, i, c, rnd) ==
    IF c = -1 THEN g
    ELSE [(IF g.bricks[c].hitsRequired - 1 <= 0
           THEN SpawnPowerUp([g EXCEPT !.bricks[c].hitsRequired = @ - 1,
                                       !.bricks[c].active = FALSE,
                                       !.score = @ + 10],
                             g.bricks[c].x + g.bricks[c].width \div 2,
                             g.bricks[c].y + g.bricks[c].height \div 2, rnd)
           ELSE [g EXCEPT !.bricks[c].hitsRequired = @ - 1])
          EXCEPT !.balls[i] = BrickBounce(g.balls[i], g.bricks[c])]

\* the body of the if in HandleBrickCollision, for the brick in cell c
HitBrick(g, i, c, rnd) ==
    IF c = -1 THEN g
    ELSE [(IF g.bricks[c].hitsRequired - 1 <= 0
           THEN SpawnPowerUp([g EXCEPT !.bricks[c].hitsRequired = @ - 1,
                                       !.bricks[c].active = FALSE,
                                       !.activeBricks = @ - 1,
                                       !.score = @ + 10],
                             g.bricks[c].x + g.bricks[c].width \div 2,
                             g.bricks[c].y + g.bricks[c].height \div 2, rnd)
           ELSE [g EXCEPT !.bricks[c].hitsRequired = @ - 1])
          EXCEPT !.balls[i] = BrickBounce(g.balls[i], g.bricks[c])]

\* HandleBrickCollision(balls[i])
HandleBrickCollision(g, i, rnd) ==
    HitBrick(g, i, FirstBrickHit(g.bricks, g.balls[i]), rnd)

\* ------------------------------------------------------------------------
\* Ball against the walls and the paddle
\* ------------------------------------------------------------------------
\* ball.position += ball.speed and the wall tests (main.cpp 431-442)
MoveBall(ball) ==
    LET x == ball.x + ball.speedX
        y == ball.y + ball.speedY
        sx == IF x + ball.radius >= SCREEN_WIDTH \/ x - ball.radius <= 0
              THEN -ball.speedX ELSE ball.speedX
        sy == IF y - ball.radius <= 0 THEN -ball.speedY ELSE ball.speedY
    IN [ball EXCEPT !.x = x, !.y = y, !.speedX = sx, !.speedY = sy,
                    !.active = ~(y + ball.radius >= SCREEN_HEIGHT)]

\* std::sqrt(ball.speed.x * ball.speed.x + ball.speed.y * ball.speed.y)
SpeedMagnitude(ball) == Sqrt(ball.speedX * ball.speedX + ball.speedY * ball.speedY)

\* targetSpeedX before the floor, for hitPoint = off / width (main.cpp 449-456)
TargetFor(off, width, speedMagnitude) ==
    IF 10 * off < 2 * width THEN -Scale(speedMagnitude, 6, 10)
    ELSE IF 10 * off > 8 * width THEN Scale(speedMagnitude, 6, 10)
    ELSE Scale((2 * off - width) * speedMagnitude, 1, 2 * width)

TargetSpeedX(ball, paddle) ==
    TargetFor(ball.x - paddle.x, paddle.width, SpeedMagnitude(ball))

NeedsFloor(ball, paddle) == Abs(TargetSpeedX(ball, paddle)) < MIN_BALL_SPEED_X

\* the floor with its jitter, rnd.jitter is GetRandomValue(-10, 10) (main.cpp 457-458)
FlooredTarget(target, jitter) ==
    IF Abs(target) < MIN_BALL_SPEED_X
    THEN Scale((IF target >= 0 THEN MIN_BALL_SPEED_X ELSE -MIN_BALL_SPEED_X) * (100 + jitter),
               1, 100)
    ELSE target

HitsPaddle(ball, paddle) ==
    CheckCollisionCircleRec(ball.x, ball.y, ball.radius, paddle) /\ ball.speedY > 0

\* PaddleBounce that leaves the ball where it met the paddle (a seeded fault)
PaddleBounce_NoNudge(ball, paddle, jitter) ==
    [ball EXCEPT !.speedY = -Abs(@),
                 !.speedX = FlooredTarget(TargetSpeedX(ball, paddle), jitter)]

PaddleBounce(ball, paddle, jitter) ==
    [ball EXCEPT !.speedY = -Abs(@),
                 !.speedX = FlooredTarget(TargetSpeedX(ball, paddle), jitter),
                 !.y = paddle.y - ball.radius - PX \div 10]

\* balls[i] becomes the moved ball b1; the log keeps a wall flip and a fall
NoteMove(g, i, b1) ==
    [g EXCEPT !.balls[i] = b1,
              !.log.wall = IF b1.speedX # g.balls[i].speedX THEN @ \cup {i} ELSE @,
              !.log.rewall = IF b1.speedX # g.balls[i].speedX /\ i \in g.log.wallBefore
                             THEN @ \cup {i} ELSE @,
              !.log.fell = IF ~b1.active THEN @ \cup {i} ELSE @]

\* the log keeps a paddle bounce, and whether it drew the jitter
NoteBounce(g, i, floored) ==
    [g EXCEPT !.log.bounced = @ \cup {i},
              !.log.jitter = IF floored THEN @ \cup {i} ELSE @,
              !.log.used = IF floored THEN @ \cup {"jitter"} ELSE @]

\* the move, the walls, the bottom and the paddle, b1 is the moved ball
\* (main.cpp 431-461)
AgainstPaddle(g, i, b1, rnd) ==
    IF HitsPaddle(b1, g.paddle)
    THEN NoteBounce([NoteMove(g, i, b1) EXCEPT
                        !.balls[i] = PaddleBounce(b1, g.paddle, rnd.jitter)],
                    i, NeedsFloor(b1, g.paddle))
    ELSE NoteMove(g, i, b1)

\* the log keeps the brick hit that took g1 to g2 (c is the brick, -1: none)
NoteHit(g1, g2, i, c) ==
    IF c = -1 THEN g2
    ELSE [g2 EXCEPT !.log.hits = Append(@, [ball |-> i, cell |-> c,
                                            before |-> g1.bricks[c].hitsRequired,
                                            after |-> g2.bricks[c].hitsRequired,
                                            active |-> g2.bricks[c].active,
                                            score |-> g2.score - g1.score,
                                            count |-> g2.activeBricks - g1.activeBricks,
                                            over |-> Touched(g1.bricks, g1.balls[i]),
                                            flipX |-> g2.balls[i].speedX * g1.balls[i].speedX < 0])]

\* HandleBrickCollision(ball) at the end of the pass (main.cpp 463)
AgainstBricks(g, i, rnd) ==
    NoteHit(g, HandleBrickCollision(g, i, rnd), i, FirstBrickHit(g.bricks, g.balls[i]))

\* one pass of the loop over the balls, for balls[i] (main.cpp 428-463)
BallStep(g, i, rnd) ==
    AgainstBricks(AgainstPaddle(g, i, MoveBall(g.balls[i]), rnd), i, rnd)

\* for (auto& ball : balls), from index i on; any is anyBallActive
RECURSIVE BallLoop(_, _, _, _)
BallLoop(g, i, any, rnd) ==
    IF i > Len(g.balls) THEN [g |-> g, anyBallActive |-> any]
    ELSE IF ~g.balls[i].active THEN BallLoop(g, i + 1, any, rnd)
    ELSE BallLoop(BallStep(g, i, rnd), i + 1, TRUE, rnd)

\* LoseLife where the reset after a lost life also restarts the countdown
\* (a seeded fault)
LoseLife_RestartTimer(g, rnd) ==
    LET g1 == [g EXCEPT !.lives = @ - 1]
    IN IF g1.lives <= 0 THEN [g1 EXCEPT !.currentState = GAME_OVER]
       ELSE [ResetBallsAndPaddle(g1, rnd) EXCEPT
                !.countdownTimer = TimeLimit(g.currentDifficulty)]

\* lives--, then GAME_OVER or a reset (main.cpp 409-418 and 468-476)
LoseLife(g, rnd) ==
    LET g1 == [g EXCEPT !.lives = @ - 1]
    IN IF g1.lives <= 0 THEN [g1 EXCEPT !.currentState = GAME_OVER]
       ELSE ResetBallsAndPaddle(g1, rnd)

\* TimerStep where the expiry serves a new ball and restarts the countdown
\* without taking a life (a seeded fault)
TimerStep_Restart(g, in, rnd) ==
    LET g1 == [g EXCEPT !.countdownTimer = @ - in.dt]
    IN IF g1.countdownTimer <= 0
       THEN ResetBallsAndPaddle([g1 EXCEPT !.countdownTimer = TimeLimit(g.currentDifficulty),
                                           !.log.expired = TRUE], rnd)
       ELSE g1

\* countdownTimer -= GetFrameTime() and the expiry (main.cpp 406-419)
TimerStep(g, in, rnd) ==
    LET g1 == [g EXCEPT !.countdownTimer = @ - in.dt]
    IN IF g1.countdownTimer <= 0
       THEN LoseLife([g1 EXCEPT !.balls = [i \in DOMAIN @ |-> [@[i] EXCEPT !.active = FALSE]],
                                !.log.expired = TRUE], rnd)
       ELSE g1

\* the paddle keys and the clamp (main.cpp 421-423)
PaddleStep(g, in) ==
    LET x1 == IF in.left THEN g.paddle.x - PADDLE_SPEED ELSE g.paddle.x
        x2 == IF in.right THEN x1 + PADDLE_SPEED ELSE x1
    IN [g EXCEPT !.paddle.x = Max2(0, Min2(x2, SCREEN_WIDTH - g.paddle.width))]

\* MoveBrick that never reverses the brick (a seeded fault)
MoveBrick_NoTurn(brick) ==
    IF brick.active /\ brick.moveSpeed # 0
    THEN [brick EXCEPT !.x = @ + brick.moveSpeed]
    ELSE brick

MoveBrick(brick) ==
    IF brick.active /\ brick.moveSpeed # 0
    THEN LET x == brick.x + brick.moveSpeed
         IN [brick EXCEPT !.x = x,
                          !.moveSpeed = IF x <= 0 \/ x + brick.width >= SCREEN_WIDTH
                                        THEN -@ ELSE @]
    ELSE brick

\* the moving bricks of HARD (main.cpp 479-493)
MoveBricks(g) ==
    IF g.currentDifficulty = HARD
    THEN [g EXCEPT !.bricks = [c \in Cells |-> MoveBrick(@[c])]]
    ELSE g

\* if (!anyBallActive) ..., r is the outcome of the loop (main.cpp 466-477)
AfterBalls(r, rnd) ==
    IF ~r.anyBallActive THEN LoseLife([r.g EXCEPT !.log.lost = TRUE], rnd) ELSE r.g

\* if (activeBricks <= 0) currentState = GameState::YOU_WIN
WinCheck(g) == IF g.activeBricks <= 0 THEN [g EXCEPT !.currentState = YOU_WIN] ELSE g

\* a frame of play that is neither paused nor left (main.cpp 406-498)
Simulate(g, in, rnd) ==
    WinCheck(UpdatePowerUps(MoveBricks(AfterBalls(
        BallLoop(PaddleStep(TimerStep(g, in, rnd), in), 1, FALSE, rnd), rnd))))

\* if (IsKeyPressed(KEY_P)) paused = !paused
TogglePause(g, in) == IF in.p THEN [g EXCEPT !.paused = ~@] ELSE g

\* AfterPause where the countdown runs on while paused (a seeded fault)
AfterPause_PausedTimer(g, in, rnd) ==
    IF in.b
    THEN [g EXCEPT !.currentState = MENU, !.selectedMenuOption = 0,
                   !.paused = FALSE, !.powerUps = <<>>]
    ELSE IF g.paused THEN [g EXCEPT !.countdownTimer = @ - in.dt]
    ELSE Simulate(g, in, rnd)

\* AfterPause where the frame of the return-to-menu key still simulates
\* (a seeded fault)
AfterPause_LeaveAfterStep(g, in, rnd) ==
    IF in.b
    THEN [Simulate(g, in, rnd) EXCEPT !.currentState = MENU, !.selectedMenuOption = 0,
                                      !.paused = FALSE, !.powerUps = <<>>]
    ELSE IF g.paused THEN g
    ELSE Simulate(g, in, rnd)

\* the return-to-menu key and the pause test (main.cpp 395-404)
AfterPause(g, in, rnd) ==
    IF in.b
    THEN [g EXCEPT !.currentState = MENU, !.selectedMenuOption = 0,
                   !.paused = FALSE, !.powerUps = <<>>]
    ELSE IF g.paused THEN g
    ELSE Simulate(g, in, rnd)

\* case GameState::PLAYING
UpdatePlaying(g, in, rnd) == AfterPause(TogglePause(g, in), in, rnd)

\* UpdateEnd where the confirm key restarts play from either end screen
\* (a seeded fault)
UpdateEnd_Restart(g, in, rnd) ==
    IF in.enter THEN [g EXCEPT !.currentState = PLAYING, !.paused = FALSE] ELSE g

\* UpdateEnd where returning to the menu clears the score (a seeded fault)
UpdateEnd_ClearScore(g, in, rnd) ==
    IF in.enter
    THEN IF g.currentState = YOU_WIN /\ g.currentDifficulty # HARD
         THEN LET g1 == [g EXCEPT !.currentLevel = @ + 1, !.currentDifficulty = @ + 1]
                  g2 == SetupLevel(g1, g1.currentDifficulty, rnd)
              IN [g2 EXCEPT !.score = @ + 100, !.currentState = PLAYING, !.paused = FALSE]
         ELSE [g EXCEPT !.currentState = MENU, !.selectedMenuOption = 0, !.paused = FALSE,
                        !.score = 0]
    ELSE g

\* case GameState::GAME_OVER: case GameState::YOU_WIN:
UpdateEnd(g, in, rnd) ==
    IF in.enter
    THEN IF g.currentState = YOU_WIN /\ g.currentDifficulty # HARD
         THEN LET g1 == [g EXCEPT !.currentLevel = @ + 1, !.currentDifficulty = @ + 1]
                  g2 == SetupLevel(g1, g1.currentDifficulty, rnd)
              IN [g2 EXCEPT !.score = @ + 100, !.currentState = PLAYING, !.paused = FALSE]
         ELSE [g EXCEPT !.currentState = MENU, !.selectedMenuOption = 0, !.paused = FALSE]
    ELSE g

\* UpdateGame where the pause key toggles the flag in every state (a
\* seeded fault)
UpdateGame_PauseAnywhere(g, in, rnd) ==
    IF g.currentState = MENU THEN UpdateMenu(TogglePause(g, in), in, rnd)
    ELSE IF g.currentState = PLAYING THEN UpdatePlaying(g, in, rnd)
    ELSE UpdateEnd(TogglePause(g, in), in, rnd)

UpdateGame(g, in, rnd) ==
    IF g.currentState = MENU THEN UpdateMenu(g, in, rnd)
    ELSE IF g.currentState = PLAYING THEN UpdatePlaying(g, in, rnd)
    ELSE UpdateEnd(g, in, rnd)

\* ------------------------------------------------------------------------
\* State
\* ------------------------------------------------------------------------
VARIABLES
    \* the program's globals (main.cpp 95-107)
    paddle, balls, bricks, powerUps, score, lives, currentState, paused,
    activeBricks, countdownTimer, currentDifficulty, currentLevel, selectedMenuOption,
    \* the environment: the plan of the run, the frames played by the scripted
    \* player, the simulated frames with free inputs
    plan, frame, ticks,
    \* the last frame: the state it started in, its keys and frame time, and
    \* what the frame observed
    ev

vars == <<paddle, balls, bricks, powerUps, score, lives, currentState, paused,
          activeBricks, countdownTimer, currentDifficulty, currentLevel,
          selectedMenuOption, plan, frame, ticks, ev>>

\* the globals as one record, with the log of a frame that starts
Game ==
    [paddle |-> paddle, balls |-> balls, bricks |-> bricks, powerUps |-> powerUps,
     score |-> score, lives |-> lives, currentState |-> currentState, paused |-> paused,
     activeBricks |-> activeBricks, countdownTimer |-> countdownTimer,
     currentDifficulty |-> currentDifficulty, currentLevel |-> currentLevel,
     selectedMenuOption |-> selectedMenuOption,
     log |-> [NoLog EXCEPT !.wallBefore = IF ev.log.reset THEN {} ELSE ev.log.wall]]

\* ------------------------------------------------------------------------
\* Inputs
\* ------------------------------------------------------------------------
NoKeys == [up |-> FALSE, down |-> FALSE, enter |-> FALSE, p |-> FALSE, b |-> FALSE,
           left |-> FALSE, right |-> FALSE, dt |-> 0]

\* GetFrameTime(): a frame at 60 frames per second, and a stalled frame
FrameTimes == {17, 160 * MS}

SignDraws == {1, -1}

\* GetRandomValue(0, 100) around the spawn threshold
RollDraws == {POWERUP_SPAWN_CHANCE, POWERUP_SPAWN_CHANCE + 1}

KindDraws == {PADDLE_SIZE_UP, BALL_SPEED_UP, EXTRA_LIFE, MULTI_BALL}

\* GetRandomValue(-10, 10)
JitterDraws == {-10, 0, 10}

Guided == frame < Plans[plan].K

PlanDraws ==
    [level |-> Plans[plan].level, sign |-> Plans[plan].sign,
     roll |-> IF score < Plans[plan].spawnBelow THEN 0 ELSE 100,
     kind |-> Plans[plan].kind, jitter |-> Plans[plan].jitter]

\* the ball the scripted player follows (0: none)
Followed ==
    LET act == {i \in DOMAIN balls : balls[i].active}
    IN IF act = {} THEN 0
       ELSE IF Plans[plan].follow = "last"
       THEN CHOOSE i \in act : \A j \in act : i >= j
       ELSE CHOOSE i \in act : \A j \in act : i <= j

\* the movement keys that bring the paddle centre (plus aim) under tx
PlanSteer(tx) ==
    LET centre == paddle.x + paddle.width \div 2 + Plans[plan].aim
    IN [NoKeys EXCEPT !.dt = Plans[plan].dt,
                      !.left = tx < centre - PADDLE_SPEED \div 2,
                      !.right = tx > centre + PADDLE_SPEED \div 2]

PlanKeys ==
    IF currentState = MENU
    THEN IF selectedMenuOption # Plans[plan].diff
         THEN [NoKeys EXCEPT !.down = TRUE]
         ELSE [NoKeys EXCEPT !.enter = TRUE]
    ELSE IF currentState = PLAYING
    THEN IF Plans[plan].follow = "powerup" /\ powerUps # <<>>
         THEN PlanSteer(powerUps[1].x + POWERUP_SIZE \div 2)
         ELSE IF Followed = 0 THEN [NoKeys EXCEPT !.dt = Plans[plan].dt]
         ELSE PlanSteer(balls[Followed].x)
    ELSE [NoKeys EXCEPT !.enter = TRUE]

FreeKeys ==
    IF currentState = MENU
    THEN {[NoKeys EXCEPT !.up = TRUE], [NoKeys EXCEPT !.down = TRUE],
          [NoKeys EXCEPT !.enter = TRUE], [NoKeys EXCEPT !.down = TRUE, !.enter = TRUE]}
    ELSE IF currentState = PLAYING
    THEN {[NoKeys EXCEPT !.left = m = "left", !.right = m = "right", !.dt = t] :
              m \in {"none", "left", "right"}, t \in FrameTimes}
         \cup {[NoKeys EXCEPT !.p = TRUE, !.dt = 17], [NoKeys EXCEPT !.b = TRUE, !.dt = 17],
               [NoKeys EXCEPT !.b = TRUE, !.p = TRUE, !.left = TRUE, !.dt = 17]}
    ELSE {[NoKeys EXCEPT !.enter = TRUE], [NoKeys EXCEPT !.p = TRUE]}

Keys == IF Guided THEN {PlanKeys} ELSE FreeKeys

\* a free frame's draws: each draw the frame makes ranges over its set
DefaultDraws ==
    [level |-> CHOOSE lv \in LevelDraws : TRUE, sign |-> 1, roll |-> POWERUP_SPAWN_CHANCE,
     kind |-> MULTI_BALL, jitter |-> 0]

FreeDraws(used) ==
    {[level |-> lv, sign |-> s, roll |-> r, kind |-> k, jitter |-> j] :
        lv \in (IF "level" \in used THEN LevelDraws ELSE {DefaultDraws.level}),
        s \in (IF "sign" \in used THEN SignDraws ELSE {DefaultDraws.sign}),
        r \in (IF "roll" \in used THEN RollDraws ELSE {DefaultDraws.roll}),
        k \in (IF "roll" \in used THEN KindDraws ELSE {DefaultDraws.kind}),
        j \in (IF "jitter" \in used THEN JitterDraws ELSE {DefaultDraws.jitter})}

\* does the frame simulate (main.cpp 404: it returns before, when paused)
Simulates(in) ==
    currentState = PLAYING /\ ~in.b /\ (paused # in.p) = FALSE

\* ------------------------------------------------------------------------
\* Init and the frames
\* ------------------------------------------------------------------------
Init ==
    /\ paddle = [x |-> 0, y |-> 0, width |-> 0, height |-> 0]
    /\ balls = <<>>
    /\ bricks = [c \in Cells |-> ZeroBrick]
    /\ powerUps = <<>>
    /\ score = 0
    /\ lives = 3
    /\ currentState = MENU
    /\ paused = FALSE
    /\ activeBricks = 0
    /\ countdownTimer = 0
    /\ currentDifficulty = EASY
    /\ currentLevel = 1
    /\ selectedMenuOption = 0
    /\ plan \in DOMAIN Plans
    /\ frame = 0
    /\ ticks = 0
    /\ ev = [from |-> MENU, in |-> NoKeys, log |-> NoLog]

\* the globals, the scripted player and the record of the frame after a
\* frame with keys in that ends in n
BecomesGame(n, in) ==
    /\ paddle' = n.paddle
    /\ balls' = n.balls
    /\ bricks' = n.bricks
    /\ powerUps' = n.powerUps
    /\ score' = n.score
    /\ lives' = n.lives
    /\ currentState' = n.currentState
    /\ paused' = n.paused
    /\ activeBricks' = n.activeBricks
    /\ countdownTimer' = n.countdownTimer
    /\ currentDifficulty' = n.currentDifficulty
    /\ currentLevel' = n.currentLevel
    /\ selectedMenuOption' = n.selectedMenuOption
    /\ plan' = plan
    /\ frame' = IF Guided THEN frame + 1 ELSE frame
    /\ ev' = [from |-> currentState, in |-> in, log |-> [n.log EXCEPT !.used = {}]]

\* UpdateDrawFrame with keys in and draws rnd
Becomes(n, in) ==
    /\ BecomesGame(n, in)
    /\ ticks' = IF ~Guided /\ Simulates(in) THEN ticks + 1 ELSE ticks

\* a frame with free keys in: n0 is the frame under the default draws, which
\* tells the draws the frame makes
FreeFrame(in, n0) ==
    \E rnd \in FreeDraws(n0.log.used) :
        Becomes(IF n0.log.used = {} THEN n0 ELSE UpdateGame(Game, in, rnd), in)

UpdateDrawFrame ==
    \E in \in Keys :
        /\ Guided \/ ~Simulates(in) \/ ticks < Plans[plan].free
        /\ IF Guided
           THEN Becomes(UpdateGame(Game, in, PlanDraws), in)
           ELSE FreeFrame(in, UpdateGame(Game, in, DefaultDraws))

MenuFrame == currentState = MENU /\ UpdateDrawFrame

PlayingFrame == currentState = PLAYING /\ UpdateDrawFrame

EndFrame == currentState \in {GAME_OVER, YOU_WIN} /\ UpdateDrawFrame

Next == MenuFrame \/ PlayingFrame \/ EndFrame

Spec == Init /\ [][Next]_vars

\* ------------------------------------------------------------------------
\* Level generation alone: the menu frames and the return-to-menu frame,
\* with the draws of SetupLevel over GenLevelDraws
\* ------------------------------------------------------------------------
GenDraws(used) ==
    {[DefaultDraws EXCEPT !.level = lv] :
        lv \in (IF "level" \in used THEN GenLevelDraws ELSE {DefaultDraws.level})}

GenInit == Init /\ plan = 1

GenMenuFrame ==
    /\ currentState = MENU
    /\ \E in \in FreeKeys :
          \E rnd \in GenDraws(UpdateGame(Game, in, DefaultDraws).log.used) :
              Becomes(UpdateGame(Game, in, rnd), in)

GenLeaveFrame ==
    /\ currentState = PLAYING
    /\ \E in \in {k \in FreeKeys : k.b} : Becomes(UpdateGame(Game, in, DefaultDraws), in)

GenNext == GenMenuFrame \/ GenLeaveFrame

SpecLevel == GenInit /\ [][GenNext]_vars

\* ------------------------------------------------------------------------
\* Play without an end to the frames: after LiveTicks simulated frames with
\* free keys every frame is a stalled one, and the frames that simulate are
\* taken fairly (the main loop runs UpdateDrawFrame again and again, and
\* the player does not leave the game paused for ever)
\* ------------------------------------------------------------------------
LiveTimes == IF ticks < LiveTicks THEN FrameTimes ELSE {160 * MS}

LiveKeys ==
    IF Guided THEN {PlanKeys}
    ELSE IF currentState = PLAYING
    THEN {[k EXCEPT !.dt = t] : k \in FreeKeys, t \in LiveTimes}
    ELSE FreeKeys

LiveBecomes(n, in) ==
    /\ BecomesGame(n, in)
    /\ ticks' = IF ~Guided /\ Simulates(in) /\ ticks < LiveTicks THEN ticks + 1 ELSE ticks

LiveFreeFrame(in, n0) ==
    \E rnd \in FreeDraws(n0.log.used) :
        LiveBecomes(IF n0.log.used = {} THEN n0 ELSE UpdateGame(Game, in, rnd), in)

LiveFrame(in) ==
    IF Guided
    THEN LiveBecomes(UpdateGame(Game, in, PlanDraws), in)
    ELSE LiveFreeFrame(in, UpdateGame(Game, in, DefaultDraws))

LiveInit == Init

LiveMenuFrame == currentState = MENU /\ \E in \in LiveKeys : LiveFrame(in)

\* a frame of play that passes the pause test (main.cpp 404)
LiveSimFrame ==
    currentState = PLAYING /\ \E in \in LiveKeys : Simulates(in) /\ LiveFrame(in)

\* a frame of play that returns at the return-to-menu key or paused
LiveIdleFrame ==
    currentState = PLAYING /\ \E in \in LiveKeys : ~Simulates(in) /\ LiveFrame(in)

LiveEndFrame == currentState \in {GAME_OVER, YOU_WIN} /\ \E in \in LiveKeys : LiveFrame(in)

LiveNext == LiveMenuFrame \/ LiveSimFrame \/ LiveIdleFrame \/ LiveEndFrame

\* weak fairness of the frames that simulate, WF_vars(LiveSimFrame), written
\* out: LiveSimFrame is enabled exactly in the states of play, where a frame
\* without the pause key (or, paused, with it) passes the pause test
LiveFair ==
    \/ []<>(currentState # PLAYING)
    \/ []<><<currentState = PLAYING /\ Simulates(ev'.in)>>_vars

SpecLive == LiveInit /\ [][LiveNext]_vars /\ LiveFair

\* ------------------------------------------------------------------------
\* Properties
\* ------------------------------------------------------------------------
\* C1: in every reachable state lives >= 0, and the game is in GameOver
\* whenever a life loss has brought lives to 0
C1_LivesNeverNegative ==
    /\ lives >= 0
    /\ (ev.log.expired \/ ev.log.lost) /\ lives = 0 => currentState = GAME_OVER

\* C2: Menu is the initial state and the top-level state changes only along
\* Menu->Playing (confirm), Playing->Menu (return-to-menu key),
\* Playing->GameOver (no life left), Playing->YouWin (no active brick left),
\* YouWin->Playing (confirm, below the hardest difficulty), YouWin->Menu
\* (confirm, hardest difficulty) and GameOver->Menu (confirm)
C2_StateEdges ==
    /\ currentState = MENU
    /\ [][\/ currentState' = currentState
          \/ currentState = MENU /\ currentState' = PLAYING /\ ev'.in.enter
          \/ currentState = PLAYING /\ currentState' = MENU /\ ev'.in.b
          \/ currentState = PLAYING /\ currentState' = GAME_OVER /\ lives' <= 0
          \/ currentState = PLAYING /\ currentState' = YOU_WIN /\ activeBricks' <= 0
          \/ /\ currentState = YOU_WIN /\ currentState' = PLAYING
             /\ ev'.in.enter /\ currentDifficulty # HARD
          \/ /\ currentState = YOU_WIN /\ currentState' = MENU
             /\ ev'.in.enter /\ currentDifficulty = HARD
          \/ currentState = GAME_OVER /\ currentState' = MENU /\ ev'.in.enter]_vars

\* the confirm key has taken GameOver back to the menu
C2_GameOverToMenu == ev.from = GAME_OVER /\ ev.in.enter /\ currentState = MENU

\* C3: after every frame the counter activeBricks equals the number of bricks
\* of the grid whose active flag is set
C3_ActiveBrickCount == activeBricks = Cardinality({c \in Cells : bricks[c].active})

\* two balls have each destroyed a brick in one frame
C3_TwoDestroyedInOneFrame ==
    /\ \E j, k \in DOMAIN ev.log.hits :
          /\ ev.log.hits[j].ball # ev.log.hits[k].ball
          /\ ~ev.log.hits[j].active /\ ~ev.log.hits[k].active
    /\ activeBricks = Cardinality({c \in Cells : bricks[c].active})

\* C4: every active ball has a horizontal speed of at least MIN_BALL_SPEED_X,
\* also after the paddle bounce that engages the floor and draws the jitter
C4_MinHorizontalSpeed ==
    \A i \in DOMAIN balls : balls[i].active => Abs(balls[i].speedX) >= MIN_BALL_SPEED_X

\* C5: a ball that reaches a side wall has its horizontal speed flipped once in
\* that frame (a brick bounce of the same frame does not flip it back), and
\* its side-wall test does not fire again in the next frame
C5_WallFlipOnce ==
    /\ \A k \in DOMAIN ev.log.hits :
          ev.log.hits[k].ball \in ev.log.wall => ~ev.log.hits[k].flipX
    /\ ev.log.rewall = {}

\* C6: in an unpaused frame of play whose countdown runs out, lives goes down
\* by one; from lives = 1 the state becomes GameOver with every ball
\* inactive, otherwise play goes on with exactly one ball, which is active
\* (frames that also catch a power-up are left aside)
C6_TimerExpiry ==
    [][ev'.log.expired /\ ev'.log.caught = <<>> =>
          /\ lives' = lives - 1
          /\ IF lives = 1
             THEN /\ currentState' = GAME_OVER
                  /\ \A i \in DOMAIN balls' : ~balls'[i].active
             ELSE /\ currentState' = PLAYING
                  /\ Len(balls') = 1
                  /\ balls'[1].active]_vars

\* C7: the confirm key in YouWin below the hardest difficulty moves to the
\* next difficulty, adds 1 to the level and exactly 100 to the score,
\* generates a level with the paddle, bricks and timer of the new difficulty
\* and enters Playing; in YouWin at HARD and in GameOver it enters Menu and
\* leaves score, level and difficulty as they are
C7_ConfirmAtEnd ==
    [][ev'.in.enter /\ currentState \in {YOU_WIN, GAME_OVER} =>
          IF currentState = YOU_WIN /\ currentDifficulty # HARD
          THEN /\ currentDifficulty' = currentDifficulty + 1
               /\ currentLevel' = currentLevel + 1
               /\ score' = score + 100
               /\ currentState' = PLAYING
               /\ paddle'.width = PaddleWidthFor(currentDifficulty')
               /\ countdownTimer' = TimeLimit(currentDifficulty')
               /\ activeBricks' > 0
               /\ \A c \in Cells :
                     bricks'[c].active =>
                        /\ RowOf(c) < ActiveRows(currentDifficulty')
                        /\ bricks'[c].hitsRequired \in 1 .. MaxHits(currentDifficulty')
          ELSE /\ currentState' = MENU
               /\ score' = score /\ currentLevel' = currentLevel
               /\ currentDifficulty' = currentDifficulty]_vars

\* the confirm key has advanced a won level to the next difficulty
C7_Advanced ==
    /\ ev.from = YOU_WIN /\ ev.in.enter
    /\ currentState = PLAYING /\ currentDifficulty = HARD /\ currentLevel = 3

\* C8: the confirm key in Menu, whatever an earlier game left behind, enters
\* Playing with the highlighted difficulty, score 0, 3 lives, level 1, not
\* paused, no power-up, a new brick grid, and exactly one ball, which is
\* active and sits above the middle of the centred paddle
C8_ConfirmInMenu ==
    [][currentState = MENU /\ ev'.in.enter =>
          /\ currentState' = PLAYING
          /\ currentDifficulty' = selectedMenuOption'
          /\ score' = 0 /\ lives' = 3 /\ currentLevel' = 1
          /\ ~paused'
          /\ powerUps' = <<>>
          /\ paddle'.width = PaddleWidthFor(currentDifficulty')
          /\ 2 * paddle'.x + paddle'.width = SCREEN_WIDTH
          /\ Len(balls') = 1
          /\ balls'[1].active
          /\ 2 * balls'[1].x = 2 * paddle'.x + paddle'.width
          /\ balls'[1].y + balls'[1].radius < paddle'.y
          /\ countdownTimer' = TimeLimit(currentDifficulty')
          /\ activeBricks' = Cardinality({c \in Cells : bricks'[c].active})
          /\ activeBricks' > 0
          /\ \A c \in Cells :
                bricks'[c].active =>
                   /\ RowOf(c) < ActiveRows(currentDifficulty')
                   /\ bricks'[c].hitsRequired \in 1 .. MaxHits(currentDifficulty')]_vars

\* a game has started from the menu after a won game that left its score,
\* its balls and its bricks behind
C8_StartedAfterAGame ==
    /\ ev.from = MENU /\ ev.in.enter /\ currentState = PLAYING
    /\ plan = 2 /\ frame = Plans[2].K
    /\ score = 0 /\ Len(balls) = 1

\* C9: a ball hit on an active brick with hitsRequired = h takes exactly 1
\* off; for h > 1 the brick stays active and score and activeBricks do not
\* change, for h = 1 the brick becomes inactive, activeBricks goes down by 1
\* and score up by 10; a brick is active exactly when its hitsRequired is at
\* least 1, and hitsRequired is never negative, also when several balls hit
\* one brick in one frame
C9_BrickHit ==
    /\ \A k \in DOMAIN ev.log.hits :
          LET h == ev.log.hits[k]
          IN /\ h.before >= 1
             /\ h.after = h.before - 1
             /\ h.before > 1 => h.active /\ h.score = 0 /\ h.count = 0
             /\ h.before = 1 => ~h.active /\ h.score = 10 /\ h.count = -1
    /\ \A c \in Cells :
          /\ bricks[c].active <=> bricks[c].hitsRequired >= 1
          /\ bricks[c].hitsRequired >= 0

\* two balls have hit the same brick in one frame, the second hit destroying it
C9_TwoHitsOnOneBrick ==
    \E j, k \in DOMAIN ev.log.hits :
        /\ j < k
        /\ ev.log.hits[j].ball # ev.log.hits[k].ball
        /\ ev.log.hits[j].cell = ev.log.hits[k].cell
        /\ ev.log.hits[j].before = 2 /\ ev.log.hits[k].before = 1
        /\ bricks[ev.log.hits[k].cell].hitsRequired = 0

\* C10: a multi-ball power-up caught while exactly one ball is active, with
\* speed (vx, vy), appends exactly two active balls at that ball's position,
\* one with speed (-vx, -|vy|) and one with (vx, -|vy|), and leaves the balls
\* there were as they are, also when the list holds deactivated balls
C10_MultiBall ==
    \A k \in DOMAIN ev.log.caught :
        LET e == ev.log.caught[k]
            act == {i \in DOMAIN e.before : e.before[i].active}
        IN e.type = MULTI_BALL /\ Cardinality(act) = 1 =>
              LET a == e.before[CHOOSE i \in act : TRUE]
              IN e.after = e.before \o
                    << [a EXCEPT !.speedX = -a.speedX, !.speedY = -Abs(a.speedY)],
                       [a EXCEPT !.speedY = -Abs(a.speedY)] >>

\* C11: after the level generation for a difficulty with R active rows (3, 5,
\* 6 for Easy, Medium, Hard) the number of active bricks is floor(p * 10R /
\* 100) for an integer p in 70..90, every active brick lies in rows 0..R-1
\* and has hitsRequired 1 (Easy), in {1,2} (Medium), in {1,2,3} (Hard), and
\* every other cell is inactive
C11_LevelGeneration ==
    ev.from = MENU /\ currentState = PLAYING =>
        LET R == IF currentDifficulty = EASY THEN 3
                 ELSE IF currentDifficulty = MEDIUM THEN 5 ELSE 6
            H == IF currentDifficulty = EASY THEN {1}
                 ELSE IF currentDifficulty = MEDIUM THEN {1, 2} ELSE {1, 2, 3}
        IN /\ \E p \in 70 .. 90 :
                 Cardinality({c \in Cells : bricks[c].active}) = (p * 10 * R) \div 100
           /\ \A c \in Cells :
                 bricks[c].active => c \div 10 < R /\ bricks[c].hitsRequired \in H
           /\ activeBricks = Cardinality({c \in Cells : bricks[c].active})

\* a Hard level has been generated with the smallest number of bricks, 42,
\* among them bricks of 1, 2 and 3 hits, one of them in the last row
C11_HardLevel ==
    /\ ev.from = MENU /\ currentState = PLAYING /\ currentDifficulty = HARD
    /\ Cardinality({c \in Cells : bricks[c].active}) = 42
    /\ \A h \in {1, 2, 3} : \E c \in Cells : bricks[c].active /\ bricks[c].hitsRequired = h
    /\ \E c \in Cells : bricks[c].active /\ c \div 10 = 5

\* C12: a frame of play that starts paused and sees neither the pause key nor
\* the return-to-menu key changes nothing, whatever the movement keys and the
\* frame time: countdown, lives, score, paddle, balls, bricks, power-ups,
\* activeBricks, level, difficulty, state and the pause flag stay; with the
\* pause key (and no return-to-menu key) the pause flag becomes false
C12_PausedFrame ==
    [][ev'.from = PLAYING /\ paused =>
          /\ ~ev'.in.p /\ ~ev'.in.b =>
                /\ paused'
                /\ UNCHANGED <<countdownTimer, lives, score, paddle, balls, bricks, powerUps,
                               activeBricks, currentLevel, currentDifficulty, currentState,
                               selectedMenuOption>>
          /\ ev'.in.p /\ ~ev'.in.b => ~paused']_vars

\* a paused frame has seen a movement key and a stalled frame time, with
\* several balls in flight
C12_PausedWithKeys ==
    /\ ev.from = PLAYING /\ currentState = PLAYING /\ paused
    /\ ev.in.left /\ ~ev.in.p /\ ev.in.dt = 160 * MS
    /\ Cardinality({i \in DOMAIN balls : balls[i].active}) > 1

\* C13: a frame of play that sees the return-to-menu key, paused or not and
\* whatever the other keys, ends in Menu with the pause flag off and no
\* power-up, and does not simulate: countdown, balls, bricks, activeBricks,
\* paddle, lives and score stay
C13_ReturnToMenu ==
    [][ev'.from = PLAYING /\ ev'.in.b =>
          /\ currentState' = MENU
          /\ ~paused'
          /\ powerUps' = <<>>
          /\ UNCHANGED <<countdownTimer, balls, bricks, activeBricks, paddle, lives,
                         score>>]_vars

\* the return-to-menu key, pressed with the pause key and a movement key,
\* has left a game with several balls in flight
C13_LeftWithOtherKeys ==
    /\ ev.from = PLAYING /\ currentState = MENU
    /\ ev.in.b /\ ev.in.p /\ ev.in.left
    /\ Cardinality({i \in DOMAIN balls : balls[i].active}) > 1

\* the power-ups of list, each moved down by one step
MovedDown(list) == [i \in DOMAIN list |-> [list[i] EXCEPT !.y = @ + POWERUP_SPEED]]

\* C14: after every frame the collection holds only active power-ups; a
\* simulated frame leaves exactly the power-ups it had, and those it spawned,
\* moved down, in order, without those that the paddle caught or that passed
\* below the screen in this frame; any other frame leaves the collection as it
\* is or empties it, so a removed power-up does not come back
C14_PowerUpsPurged ==
    /\ [](\A i \in DOMAIN powerUps : powerUps[i].active)
    /\ [][IF Simulates(ev'.in)
          THEN /\ powerUps' = SelectSeq(MovedDown(powerUps \o ev'.log.spawned),
                                        LAMBDA e : e \notin ev'.log.purged)
               /\ \A e \in ev'.log.purged :
                     e.y > SCREEN_HEIGHT \/ ev'.log.caught # <<>>
          ELSE /\ powerUps' = powerUps \/ powerUps' = <<>>
               /\ ev'.log.purged = {}]_vars

\* a frame has removed the power-up that the paddle caught, while other
\* power-ups stay in the collection
C14_CaughtRemoved ==
    /\ ev.log.caught # <<>>
    /\ ev.log.purged # {}
    /\ powerUps # <<>>

\* C15: when the last active ball crosses the bottom boundary in a frame, the
\* same frame takes the life and either ends the game or resets balls and
\* paddle, so no frame ends in Playing without an active ball
C15_LossResolvedInFrame ==
    currentState = PLAYING => \E i \in DOMAIN balls : balls[i].active

\* C16: a multi-ball or a ball-speed-up power-up caught while no ball is
\* active changes nothing in the ball list: no ball is created or made
\* active again and no speed changes
C16_NoBallNoEffect ==
    \A k \in DOMAIN ev.log.caught :
        LET e == ev.log.caught[k]
        IN /\ e.type \in {MULTI_BALL, BALL_SPEED_UP}
           /\ \A i \in DOMAIN e.before : ~e.before[i].active
           => e.after = e.before

\* C17: in one frame a ball hits at most one brick, the first of the active
\* bricks it touches in row-major order (cell = row * 10 + column); a brick
\* loses one hit for each ball that hit it and no other brick changes its
\* hitsRequired or its active flag, whether a ball touches it or not
C17_FirstBrickOnly ==
    /\ [](\A j, k \in DOMAIN ev.log.hits :
             /\ j # k => ev.log.hits[j].ball # ev.log.hits[k].ball
             /\ ev.log.hits[k].cell \in ev.log.hits[k].over
             /\ \A c \in ev.log.hits[k].over : ev.log.hits[k].cell <= c)
    /\ [][Simulates(ev'.in) =>
             \A c \in Cells :
                 LET n == Cardinality({k \in DOMAIN ev'.log.hits : ev'.log.hits[k].cell = c})
                 IN /\ bricks'[c].hitsRequired = bricks[c].hitsRequired - n
                    /\ n = 0 => bricks'[c].active = bricks[c].active]_vars

\* a ball that touched two active bricks has hit the first, and the other one
\* is as it was: active
C17_TouchedTwo ==
    \E k \in DOMAIN ev.log.hits :
        \E c \in ev.log.hits[k].over :
            /\ c > ev.log.hits[k].cell
            /\ bricks[c].active
            /\ \A j \in DOMAIN ev.log.hits : ev.log.hits[j].cell # c

\* C18: a ball bounces off the paddle only when it moves down; the frame of
\* the bounce ends with the ball's vertical speed negative and of the same
\* magnitude (unless a ball-speed-up is caught in the frame), the ball above
\* the paddle's top edge and clear of the paddle, and the ball did not bounce
\* off the paddle in the frame before
C18_PaddleBounce ==
    [][\A i \in ev'.log.bounced :
          /\ balls[i].speedY > 0
          /\ balls'[i].speedY < 0
          /\ (\A k \in DOMAIN ev'.log.caught : ev'.log.caught[k].type # BALL_SPEED_UP)
                => balls'[i].speedY = -balls[i].speedY
          /\ balls'[i].y + balls'[i].radius < paddle'.y
          /\ ~CheckCollisionCircleRec(balls'[i].x, balls'[i].y, balls'[i].radius, paddle')
          /\ i \notin ev.log.bounced]_vars

\* a ball has bounced off the paddle and sits just above it, moving up
C18_Bounced ==
    \E i \in ev.log.bounced :
        /\ balls[i].active
        /\ balls[i].speedY < 0
        /\ balls[i].y = paddle.y - balls[i].radius - PX \div 10

\* C19: in every state the paddle lies on the screen, 0 <= paddle.x <=
\* SCREEN_WIDTH - paddle.width, and is at most 200 wide; a frame that catches
\* one paddle-enlarge takes the width to min(1.2 * width, 200) (any other
\* simulated frame does not make it smaller, and leaves it as it is when it
\* catches none); a level set-up gives the width of the difficulty (150, 70,
\* 50); no other frame touches the paddle
C19_PaddleOnScreen ==
    /\ [](/\ 0 <= paddle.x
          /\ paddle.x + paddle.width <= SCREEN_WIDTH
          /\ paddle.width <= 200 * PX)
    /\ [][IF Simulates(ev'.in)
          THEN LET n == Cardinality({k \in DOMAIN ev'.log.caught :
                                        ev'.log.caught[k].type = PADDLE_SIZE_UP})
               IN /\ n = 0 => paddle'.width = paddle.width
                  /\ n = 1 => paddle'.width = Min2((12 * paddle.width) \div 10, 200 * PX)
                  /\ paddle'.width >= paddle.width
          ELSE IF ev'.in.enter /\ (\/ currentState = MENU
                                   \/ currentState = YOU_WIN /\ currentDifficulty # HARD)
          THEN paddle'.width = (IF currentDifficulty' = EASY THEN 150 * PX
                                ELSE IF currentDifficulty' = MEDIUM THEN 70 * PX
                                ELSE 50 * PX)
          ELSE paddle' = paddle]_vars

\* a paddle-enlarge caught at the right edge of the screen has made the
\* paddle wider and moved it back onto the screen
C19_EnlargedAtEdge ==
    /\ \E k \in DOMAIN ev.log.caught : ev.log.caught[k].type = PADDLE_SIZE_UP
    /\ paddle.width = 180 * PX
    /\ paddle.x = SCREEN_WIDTH - paddle.width

\* C20: a brick has a horizontal speed only in Hard and only in the last
\* active row (row 5); a simulated frame moves each such brick that is active
\* by its speed and reverses the speed exactly when the moved brick is at or
\* beyond a side of the screen; a brick at or beyond a side is at most one
\* step out and its next move brings it back inside, so it does not reverse
\* in two frames in a row; a brick without speed does not move
C20_MovingBricks ==
    /\ [](\A c \in Cells :
             /\ bricks[c].moveSpeed # 0 => currentDifficulty = HARD /\ c \div 10 = 5
             /\ bricks[c].active /\ bricks[c].moveSpeed # 0 =>
                   /\ bricks[c].x >= -Abs(bricks[c].moveSpeed)
                   /\ bricks[c].x + bricks[c].width <= SCREEN_WIDTH + Abs(bricks[c].moveSpeed)
                   /\ bricks[c].x <= 0 =>
                         bricks[c].moveSpeed > 0 /\ bricks[c].x + bricks[c].moveSpeed > 0
                   /\ bricks[c].x + bricks[c].width >= SCREEN_WIDTH =>
                         /\ bricks[c].moveSpeed < 0
                         /\ bricks[c].x + bricks[c].moveSpeed + bricks[c].width < SCREEN_WIDTH)
    /\ [][Simulates(ev'.in) =>
             \A c \in Cells :
                 IF bricks'[c].active /\ bricks[c].moveSpeed # 0
                 THEN /\ bricks'[c].x = bricks[c].x + bricks[c].moveSpeed
                      /\ bricks'[c].moveSpeed =
                            (IF bricks'[c].x <= 0
                                \/ bricks'[c].x + bricks'[c].width >= SCREEN_WIDTH
                             THEN -bricks[c].moveSpeed ELSE bricks[c].moveSpeed)
                 ELSE /\ bricks'[c].x = bricks[c].x
                      /\ bricks'[c].moveSpeed = bricks[c].moveSpeed]_vars

\* a moving brick has crossed the screen, reached the left side and reversed
C20_TurnedAtLeft ==
    \E c \in Cells :
        /\ bricks[c].active
        /\ bricks[c].x <= 0
        /\ bricks[c].moveSpeed > 0

\* the extra lives that the power-ups caught in the last frame gave
ExtraLives(caught) == Len(SelectSeq(caught, LAMBDA e : e.type = EXTRA_LIFE))

\* C21: the countdown never goes up while a level is played: it is set only
\* by the level set-up of the confirm key (in Menu, and in YouWin below the
\* hardest difficulty); once it is <= 0 it stays <= 0, and every unpaused
\* frame of play that starts with it <= 0 takes the expiry branch and takes
\* a life (over what caught extra-life power-ups give back)
C21_CountdownNotReset ==
    [][/\ countdownTimer' > countdownTimer =>
             /\ ev'.in.enter
             /\ currentState' = PLAYING
             /\ \/ currentState = MENU
                \/ currentState = YOU_WIN /\ currentDifficulty # HARD
             /\ countdownTimer' = TimeLimit(currentDifficulty')
       /\ currentState = PLAYING /\ countdownTimer <= 0 =>
             /\ countdownTimer' <= 0
             /\ Simulates(ev'.in) =>
                   /\ ev'.log.expired
                   /\ lives' - ExtraLives(ev'.log.caught) <= lives - 1]_vars

\* the countdown, already run out when the frame started, has taken a
\* further life and play goes on
C21_ExpiredAgain ==
    /\ ev.from = PLAYING /\ currentState = PLAYING
    /\ ev.log.expired
    /\ countdownTimer + ev.in.dt <= 0
    /\ lives = 1

\* C22: a round ends: from every state of play, when frames keep coming and
\* the game is not left paused for ever, the game leaves Playing (for
\* GameOver, YouWin or Menu)
C22_RoundEnds == (currentState = PLAYING) ~> (currentState # PLAYING)

\* a round has ended by the countdown alone: the ball never fell
C22_EndedByCountdown ==
    /\ ev.from = PLAYING /\ currentState = GAME_OVER
    /\ ev.log.expired
    /\ ticks = LiveTicks

\* C23: every frame of play starts with at least one active brick, and
\* YouWin is entered only from Playing by a frame that ends with the counter
\* activeBricks at 0; a frame in which lives reach 0 (the countdown or the
\* loss of the last ball takes the last life) ends in GameOver, the later
\* win check of the same frame does not turn it into YouWin
C23_WinOnlyWithoutBricks ==
    /\ [](currentState = PLAYING => activeBricks >= 1 /\ lives >= 1)
    /\ [][/\ currentState # YOU_WIN /\ currentState' = YOU_WIN =>
                /\ currentState = PLAYING
                /\ activeBricks' = 0
          /\ /\ currentState = PLAYING
             /\ \/ lives' <= 0
                \/ (ev'.log.expired \/ ev'.log.lost) /\ lives <= 1
             => currentState' = GAME_OVER /\ activeBricks' >= 1]_vars

\* the last life has gone with the last ball, and the frame has ended in
\* GameOver with bricks left
C23_LastBallLost ==
    /\ ev.from = PLAYING /\ currentState = GAME_OVER
    /\ ev.log.lost /\ ~ev.log.expired
    /\ activeBricks >= 1

\* C24: paused is set only in Playing: in Menu, GameOver and YouWin it is
\* FALSE, and there the pause key changes nothing: a frame with it does what
\* the frame without it does, and a frame with the pause key alone leaves
\* every global as it is
C24_PausedOnlyInPlay ==
    /\ [](paused => currentState = PLAYING)
    /\ [](currentState # PLAYING =>
             \A in \in FreeKeys :
                 UpdateGame(Game, [in EXCEPT !.p = ~@], DefaultDraws)
                     = UpdateGame(Game, in, DefaultDraws))
    /\ [][/\ currentState # PLAYING
          /\ ev'.in.p /\ ~ev'.in.enter /\ ~ev'.in.up /\ ~ev'.in.down
          => /\ ~paused'
             /\ UNCHANGED <<paddle, balls, bricks, powerUps, score, lives, currentState,
                            activeBricks, countdownTimer, currentDifficulty,
                            currentLevel, selectedMenuOption>>]_vars

\* the pause key has been pressed on the GameOver screen
C24_PauseKeyAtGameOver ==
    /\ ev.from = GAME_OVER /\ ev.in.p
    /\ currentState = GAME_OVER /\ ~paused

====
